---- MODULE Spec2Model ----
(***************************************************************************)
(* State machine of patch-hub's application core (src/src/app.rs):        *)
(* the App with its mailing-list selection, bookmarked patchsets, latest  *)
(* patchsets and patchset details sub-states, and the consolidation of    *)
(* the pending patchset actions.                                          *)
(*                                                                         *)
(* A Patch is represented by its message identifier, a number in          *)
(* 1 .. MaxFeed.  An Option is a sequence of length 0 (None) or 1 (Some). *)
(* A String is a sequence of one-character strings.  A method that        *)
(* panics (unwrap on None, index out of range) sets panicked, after which *)
(* no operation runs.                                                      *)
(***************************************************************************)
EXTENDS Integers, Sequences, FiniteSets, TLC

----
\* Bounds of the model.

\* Length of the remote feed, and so the number of distinct series.
MaxFeed == 4
\* Largest number of messages a downloaded series is split into.
MaxMsgs == 3
\* Largest configured page size.
MaxPageSize == 2
\* Largest page number the pagination is followed to.
MaxPage == 3
\* Longest filter text typed into the mailing-list selection.
MaxFilterLen == 5
\* Consolidations with executed replies counted since the last reply toggle.
MaxReplyRuns == 2
\* Distinct series the application browses and bookmarks.
NumSeries == 2

PatchIds == 1..MaxFeed


----
\* Option<T>

None == <<>>

Some(x) == <<x>>

IsSome(o) == o # None

Unwrap(o) == o[1]

----
\* The screens (enum CurrentScreen).

CurrentScreen == {"MailingListSelection", "BookmarkedPatchsets",
                  "LatestPatchsets", "PatchsetDetails"}

VARIABLES
    current_screen,                        \* App.current_screen
    mailing_lists,                         \* MailingListSelectionState.mailing_lists
    target_list,                           \* MailingListSelectionState.target_list
    possible_mailing_lists,                \* MailingListSelectionState.possible_mailing_lists
    highlighted_list_index,                \* MailingListSelectionState.highlighted_list_index
    bookmarked_patchsets,                  \* BookmarkedPatchsetsState.bookmarked_patchsets
    patchset_index,                        \* BookmarkedPatchsetsState.patchset_index
    latest_patchsets_state,                \* App.latest_patchsets_state : Option
    patchset_details_and_actions_state,    \* App.patchset_details_and_actions_state : Option
    reviewed_patchsets,                    \* App.reviewed_patchsets : message id -> indexes
    page_size,                             \* App.config.page_size, as the sub-states are given it
    config,                                \* App.config : Option, None until Config::build has run
    env,                                   \* the environment variables of the process
    files,                                 \* the configuration files: path -> content
    saving,                                \* position of a running Config::save_patch_hub_config
    feed_len,                              \* length of the remote feed of the target list
    watched,                               \* the operations whose calls last_call records
    last_call,                             \* what the last call returned, if of a watched operation
    reply_runs,                            \* consolidations that executed replies since the reply
                                           \* flag of the details state was last set by the user
    panicked                               \* a panic has unwound the process

vars == <<current_screen, mailing_lists, target_list, possible_mailing_lists,
          highlighted_list_index, bookmarked_patchsets, patchset_index,
          latest_patchsets_state, patchset_details_and_actions_state,
          reviewed_patchsets, page_size, config, env, files, saving,
          feed_len, watched, last_call, reply_runs, panicked>>

list_vars == <<mailing_lists, target_list, possible_mailing_lists,
               highlighted_list_index>>

bookmark_vars == <<bookmarked_patchsets, patchset_index>>

config_vars == <<config, env, files, saving>>

env_vars == <<page_size, feed_len, watched, config_vars>>

----
\* Vec<Patch> helpers.  Patch equality is equality of message identifiers.

PatchEq(a, b) == a = b

contains(s, x) == \E i \in 1..Len(s) : PatchEq(s[i], x)

\* Index (from 1) of the first element equal to x, 0 when there is none.
position(s, x) ==
    IF contains(s, x)
    THEN CHOOSE i \in 1..Len(s) :
            /\ PatchEq(s[i], x)
            /\ \A j \in 1..(i - 1) : ~PatchEq(s[j], x)
    ELSE 0

remove(s, i) == SubSeq(s, 1, i - 1) \o SubSeq(s, i + 1, Len(s))

NoDuplicates(s) == \A i, j \in 1..Len(s) : s[i] = s[j] => i = j

\* One external call of an operation: its name, the index of the reply
\* command for a spawn (-1 otherwise), and whether it succeeded.
Effect(call, index, ok) == [call |-> call, index |-> index, ok |-> ok]

\* What the last operation returned: "Ok" or "Err" of a Result, "unit" of a
\* method without result, "panic"; error names the external call whose
\* failure an Err reports ("" otherwise); effects are the external calls the
\* operation made, in order.  Only the calls of the watched operations are
\* told apart; any other call leaves NotWatched.
\* found tells what the call found of the series of the details state: whether
\* it was bookmarked and whether the reviewed map held an entry for it.
NothingFound == [bookmarked |-> FALSE, reviewed |-> FALSE]

NotWatched == [op |-> "", ret |-> "", error |-> "", effects |-> <<>>,
               found |-> NothingFound]

Found ==
    IF IsSome(patchset_details_and_actions_state)
    THEN [bookmarked |-> contains(bookmarked_patchsets,
                                  Unwrap(patchset_details_and_actions_state).representative_patch),
          reviewed |-> IsSome(reviewed_patchsets[
                                  Unwrap(patchset_details_and_actions_state).representative_patch])]
    ELSE NothingFound

Returned(op, ret, error, effects) ==
    IF op \in watched
    THEN [op |-> op, ret |-> ret, error |-> error, effects |-> effects,
          found |-> Found]
    ELSE NotWatched

\* A method without a result has run.
Ran(op) == last_call' = Returned(op, "unit", "", <<>>)

\* A method has panicked: the process unwinds, no field is written.
Panic(op) ==
    /\ panicked' = TRUE
    /\ last_call' = Returned(op, "panic", "", <<>>)
    /\ UNCHANGED <<current_screen, list_vars, bookmark_vars, latest_patchsets_state,
                   patchset_details_and_actions_state, reviewed_patchsets,
                   env_vars, reply_runs>>

\* The sequences without repetition over a set, up to a length.
RECURSIVE DistinctSeqs(_, _)
DistinctSeqs(S, n) ==
    IF n = 0 THEN {<<>>}
    ELSE LET shorter == DistinctSeqs(S, n - 1)
         IN shorter \cup
            {s \in {Append(t, x) : t \in shorter, x \in S} : NoDuplicates(s)}

----
\* BookmarkedPatchsetsState

\* select_below_patchset as it would be without the comparison of line 24.
Bookmarked_select_below_patchset_unguarded ==
    /\ ~panicked
    /\ patchset_index' = patchset_index + 1
    /\ Ran("BookmarkedPatchsetsState::select_below_patchset")
    /\ UNCHANGED <<current_screen, list_vars, bookmarked_patchsets,
                   latest_patchsets_state, patchset_details_and_actions_state,
                   reviewed_patchsets, env_vars, reply_runs, panicked>>

Bookmarked_select_below_patchset ==
    /\ ~panicked
    /\ patchset_index' = IF patchset_index + 1 < Len(bookmarked_patchsets)
                         THEN patchset_index + 1
                         ELSE patchset_index
    /\ Ran("BookmarkedPatchsetsState::select_below_patchset")
    /\ UNCHANGED <<current_screen, list_vars, bookmarked_patchsets,
                   latest_patchsets_state, patchset_details_and_actions_state,
                   reviewed_patchsets, env_vars, reply_runs, panicked>>

saturating_sub(a, b) == IF a >= b THEN a - b ELSE 0

Bookmarked_select_above_patchset ==
    /\ ~panicked
    /\ patchset_index' = saturating_sub(patchset_index, 1)
    /\ Ran("BookmarkedPatchsetsState::select_above_patchset")
    /\ UNCHANGED <<current_screen, list_vars, bookmarked_patchsets,
                   latest_patchsets_state, patchset_details_and_actions_state,
                   reviewed_patchsets, env_vars, reply_runs, panicked>>

\* Vec::get(patchset_index): None when the index is out of range.
Bookmarked_get_selected_patchset ==
    IF patchset_index < Len(bookmarked_patchsets)
    THEN Some(bookmarked_patchsets[patchset_index + 1])
    ELSE None

bookmark_selected_patch_unchecked(bm, patch_to_bookmark) ==
    Append(bm, patch_to_bookmark)

bookmark_selected_patch(bm, patch_to_bookmark) ==
    IF ~contains(bm, patch_to_bookmark)
    THEN Append(bm, patch_to_bookmark)
    ELSE bm

unbookmark_selected_patch(bm, patch_to_unbookmark) ==
    IF position(bm, patch_to_unbookmark) # 0
    THEN remove(bm, position(bm, patch_to_unbookmark))
    ELSE bm

----
\* LatestPatchsetsState: [target_list, page_number, patchset_index, page_size,
\* representative_patches_ids], the last being the identifiers the
\* LoreSession has processed so far, in feed order.

LatestPatchsetsState_new(list_name, size) ==
    [target_list |-> list_name,
     page_number |-> 1,
     patchset_index |-> 0,
     page_size |-> size,
     representative_patches_ids |-> <<>>]

\* Vec::get(patchset_index) on the processed identifiers.
Latest_get_selected_patchset(l) ==
    IF l.patchset_index < Len(l.representative_patches_ids)
    THEN Some(l.representative_patches_ids[l.patchset_index + 1])
    ELSE None

\* The first n items of the remote feed: item i is the series i.
FeedPrefix(n) == [i \in 1..n |-> i]

\* LoreSession::process_n_representative_patches(n): what the session holds
\* afterwards and what the call returns.  Nothing is requested when n items
\* are held already.  Otherwise the source answers with an error (nothing is
\* stored), with the end of the feed (everything the feed has is held, fewer
\* than n items), or with at least n items, delivered being how many the
\* session then holds.
FeedAnswers == {"Ok", "EndOfFeed", "UnknownError", "StatusNotOk"}

process_n_representative_patches(l, n, answer, delivered) ==
    IF n <= Len(l.representative_patches_ids)
    THEN [ret |-> "Ok", state |-> l]
    ELSE IF answer \in {"UnknownError", "StatusNotOk"}
    THEN [ret |-> answer, state |-> l]
    ELSE IF answer = "EndOfFeed"
    THEN [ret |-> "EndOfFeed",
          state |-> [l EXCEPT !.representative_patches_ids = FeedPrefix(feed_len)]]
    ELSE [ret |-> "Ok",
          state |-> [l EXCEPT !.representative_patches_ids = FeedPrefix(delivered)]]

\* The answers the source can give to a request for n items.
CanAnswer(l, n, answer, delivered) ==
    \/ answer \in {"UnknownError", "StatusNotOk"} /\ delivered = 0
    \/ answer = "EndOfFeed" /\ feed_len < n /\ delivered = 0
    \/ answer = "Ok" /\ n <= delivered /\ delivered <= feed_len

\* fetch_current_page as it would be were the end of the feed an error too.
fetch_current_page_end_is_error(l, answer, delivered) ==
    LET got == process_n_representative_patches(l, l.page_size * l.page_number,
                                                answer, delivered)
    IN [ret |-> IF got.ret = "Ok" THEN "Ok" ELSE "Err",
        error |-> IF got.ret = "Ok" THEN "" ELSE got.ret,
        signal |-> got.ret,
        state |-> got.state]

\* Lines 76-86; signal is what the session answered.
fetch_current_page(l, answer, delivered) ==
    LET got == process_n_representative_patches(l, l.page_size * l.page_number,
                                                answer, delivered)
    IN [ret |-> IF got.ret \in {"UnknownError", "StatusNotOk"} THEN "Err" ELSE "Ok",
        error |-> IF got.ret \in {"UnknownError", "StatusNotOk"} THEN got.ret ELSE "",
        signal |-> got.ret,
        state |-> got.state]

\* Lines 88-92.
select_below_patchset(l) ==
    IF l.patchset_index + 1 < Len(l.representative_patches_ids)
    THEN [l EXCEPT !.patchset_index = l.patchset_index + 1]
    ELSE l

\* select_above_patchset as it would be without the comparison of line 98.
select_above_patchset_across_pages(l) ==
    IF l.patchset_index = 0
    THEN l
    ELSE [l EXCEPT !.patchset_index = l.patchset_index - 1]

\* Lines 94-101.
select_above_patchset(l) ==
    IF l.patchset_index = 0
    THEN l
    ELSE IF l.patchset_index - 1 >= l.page_size * (l.page_number - 1)
    THEN [l EXCEPT !.patchset_index = l.patchset_index - 1]
    ELSE l

\* increment_page as it would be were the cursor left where it is.
increment_page_keeping_cursor(l) ==
    IF l.page_size * l.page_number > Len(l.representative_patches_ids)
    THEN l
    ELSE [l EXCEPT !.page_number = l.page_number + 1]

\* increment_page as it would be without the early return of lines 105-107.
increment_page_unguarded(l) ==
    [l EXCEPT !.page_number = l.page_number + 1,
              !.patchset_index = l.page_size * ((l.page_number + 1) - 1)]

\* Lines 103-110.
increment_page(l) ==
    IF l.page_size * l.page_number > Len(l.representative_patches_ids)
    THEN l
    ELSE [l EXCEPT !.page_number = l.page_number + 1,
                   !.patchset_index = l.page_size * ((l.page_number + 1) - 1)]

\* decrement_page as it would be without the early return of lines 113-115.
decrement_page_unguarded(l) ==
    [l EXCEPT !.page_number = l.page_number - 1,
              !.patchset_index = l.page_size * ((l.page_number - 1) - 1)]

\* Lines 112-118.
decrement_page(l) ==
    IF l.page_number = 1
    THEN l
    ELSE [l EXCEPT !.page_number = l.page_number - 1,
                   !.patchset_index = l.page_size * ((l.page_number - 1) - 1)]

\* LoreSession::get_patch_feed_page(page_size, page_number): the items of the
\* window when that many are held, None otherwise.
get_current_patch_feed_page(l) ==
    IF l.page_size * l.page_number <= Len(l.representative_patches_ids)
    THEN Some(SubSeq(l.representative_patches_ids,
                     l.page_size * (l.page_number - 1) + 1,
                     l.page_size * l.page_number))
    ELSE None

latest_unchanged_vars == <<current_screen, list_vars, bookmark_vars,
                           patchset_details_and_actions_state, reviewed_patchsets,
                           env_vars, reply_runs, panicked>>

\* The effect recorded is the answer of the session.
Latest_fetch_current_page ==
    /\ ~panicked
    /\ IsSome(latest_patchsets_state)
    /\ \E answer \in FeedAnswers, delivered \in 0..feed_len :
          \E l \in {Unwrap(latest_patchsets_state)} :
            /\ CanAnswer(l, l.page_size * l.page_number, answer, delivered)
            /\ \E out \in {fetch_current_page(l, answer, delivered)} :
             /\ latest_patchsets_state' = Some(out.state)
             /\ last_call' = Returned("LatestPatchsetsState::fetch_current_page",
                                      out.ret, out.error,
                                      <<Effect(out.signal, -1, out.signal = "Ok")>>)
    /\ UNCHANGED latest_unchanged_vars

Latest_select_below_patchset ==
    /\ ~panicked
    /\ IsSome(latest_patchsets_state)
    /\ latest_patchsets_state' = Some(select_below_patchset(Unwrap(latest_patchsets_state)))
    /\ Ran("LatestPatchsetsState::select_below_patchset")
    /\ UNCHANGED latest_unchanged_vars

Latest_select_above_patchset ==
    /\ ~panicked
    /\ IsSome(latest_patchsets_state)
    /\ latest_patchsets_state' = Some(select_above_patchset(Unwrap(latest_patchsets_state)))
    /\ Ran("LatestPatchsetsState::select_above_patchset")
    /\ UNCHANGED latest_unchanged_vars

Latest_increment_page ==
    /\ ~panicked
    /\ IsSome(latest_patchsets_state)
    /\ Unwrap(latest_patchsets_state).page_number < MaxPage
    /\ latest_patchsets_state' = Some(increment_page(Unwrap(latest_patchsets_state)))
    /\ Ran("LatestPatchsetsState::increment_page")
    /\ UNCHANGED latest_unchanged_vars

Latest_decrement_page ==
    /\ ~panicked
    /\ IsSome(latest_patchsets_state)
    /\ latest_patchsets_state' = Some(decrement_page(Unwrap(latest_patchsets_state)))
    /\ Ran("LatestPatchsetsState::decrement_page")
    /\ UNCHANGED latest_unchanged_vars

----
\* PatchsetDetailsAndActionsState: [representative_patch, patches,
\* preview_index, patchset_actions, last_screen].  patches holds one entry per
\* message of the series; the texts themselves and the scroll offset inside a
\* text play no part in the operations modelled.

PatchsetAction == {"Bookmark", "ReplyWithReviewedBy"}

Texts(n) == [i \in 1..n |-> "patch"]

toggle_action(d, patchset_action) ==
    [d EXCEPT !.patchset_actions[patchset_action] = ~d.patchset_actions[patchset_action]]

details_unchanged_vars == <<current_screen, list_vars, bookmark_vars,
                            latest_patchsets_state, reviewed_patchsets,
                            env_vars, panicked>>

preview_next_patch ==
    /\ ~panicked
    /\ IsSome(patchset_details_and_actions_state)
    /\ LET d == Unwrap(patchset_details_and_actions_state)
       IN patchset_details_and_actions_state' =
             IF d.preview_index + 1 < Len(d.patches)
             THEN Some([d EXCEPT !.preview_index = d.preview_index + 1])
             ELSE Some(d)
    /\ Ran("PatchsetDetailsAndActionsState::preview_next_patch")
    /\ UNCHANGED <<details_unchanged_vars, reply_runs>>

preview_previous_patch ==
    /\ ~panicked
    /\ IsSome(patchset_details_and_actions_state)
    /\ LET d == Unwrap(patchset_details_and_actions_state)
       IN patchset_details_and_actions_state' =
             IF d.preview_index > 0
             THEN Some([d EXCEPT !.preview_index = d.preview_index - 1])
             ELSE Some(d)
    /\ Ran("PatchsetDetailsAndActionsState::preview_previous_patch")
    /\ UNCHANGED <<details_unchanged_vars, reply_runs>>

toggle_bookmark_action ==
    /\ ~panicked
    /\ IsSome(patchset_details_and_actions_state)
    /\ patchset_details_and_actions_state' =
          Some(toggle_action(Unwrap(patchset_details_and_actions_state), "Bookmark"))
    /\ Ran("PatchsetDetailsAndActionsState::toggle_bookmark_action")
    /\ UNCHANGED <<details_unchanged_vars, reply_runs>>

\* The user sets or unsets the reply flag: replies executed before no longer
\* count as attempts of the pending intent.
toggle_reply_with_reviewed_by_action ==
    /\ ~panicked
    /\ IsSome(patchset_details_and_actions_state)
    /\ patchset_details_and_actions_state' =
          Some(toggle_action(Unwrap(patchset_details_and_actions_state),
                             "ReplyWithReviewedBy"))
    /\ reply_runs' = 0
    /\ Ran("PatchsetDetailsAndActionsState::toggle_reply_with_reviewed_by_action")
    /\ UNCHANGED details_unchanged_vars

----
\* The reply workflow.  Its inputs from outside the program: whether git's
\* user.name and user.email are set, whether preparing the reply commands
\* succeeds, and the exit status of each command (exits[i + 1] for command i).
\* One command is prepared per message of the series.

\* The loop as it would be were a failing command to end it.
RECURSIVE run_commands_until_failure(_, _)
run_commands_until_failure(exits, i) ==
    IF i >= Len(exits)
    THEN [effects |-> <<>>, successful_indexes |-> <<>>]
    ELSE IF ~exits[i + 1]
    THEN [effects |-> <<Effect("spawn", i, FALSE)>>, successful_indexes |-> <<>>]
    ELSE LET rest == run_commands_until_failure(exits, i + 1)
         IN [effects |-> <<Effect("spawn", i, TRUE)>> \o rest.effects,
             successful_indexes |-> <<i>> \o rest.successful_indexes]

\* The loop over the prepared commands from command i on: the effects of the
\* spawns and the indexes pushed.
RECURSIVE run_commands(_, _)
run_commands(exits, i) ==
    IF i >= Len(exits)
    THEN [effects |-> <<>>, successful_indexes |-> <<>>]
    ELSE LET rest == run_commands(exits, i + 1)
         IN [effects |-> <<Effect("spawn", i, exits[i + 1])>> \o rest.effects,
             successful_indexes |->
                 IF exits[i + 1]
                 THEN <<i>> \o rest.successful_indexes
                 ELSE rest.successful_indexes]

\* The workflow as it would be were a failed preparation to leave the first
\* command to run.
reply_patchset_with_reviewed_by_partial(d, git_signature_set, prepare_ok, exits) ==
    IF ~git_signature_set
    THEN [ret |-> "Ok", error |-> "", successful_indexes |-> <<>>,
          effects |-> <<Effect("get_git_signature", -1, FALSE)>>]
    ELSE LET ran == run_commands(IF prepare_ok THEN exits ELSE SubSeq(exits, 1, 1), 0)
         IN [ret |-> "Ok", error |-> "",
             successful_indexes |-> ran.successful_indexes,
             effects |-> <<Effect("get_git_signature", -1, TRUE),
                           Effect("prepare_reply_patchset_with_reviewed_by", -1,
                                  prepare_ok)>>
                         \o ran.effects]

\* Lines 209-246.
reply_patchset_with_reviewed_by(d, git_signature_set, prepare_ok, exits) ==
    IF ~git_signature_set
    THEN [ret |-> "Ok", error |-> "", successful_indexes |-> <<>>,
          effects |-> <<Effect("get_git_signature", -1, FALSE)>>]
    ELSE IF ~prepare_ok
    THEN [ret |-> "Err", error |-> "prepare_reply_patchset_with_reviewed_by",
          successful_indexes |-> <<>>,
          effects |-> <<Effect("get_git_signature", -1, TRUE),
                        Effect("prepare_reply_patchset_with_reviewed_by", -1, FALSE)>>]
    ELSE LET ran == run_commands(exits, 0)
         IN [ret |-> "Ok", error |-> "",
             successful_indexes |-> ran.successful_indexes,
             effects |-> <<Effect("get_git_signature", -1, TRUE),
                           Effect("prepare_reply_patchset_with_reviewed_by", -1, TRUE)>>
                         \o ran.effects]

----
\* HashMap<String, Vec<u32>>: the map from message identifier to Option of the
\* indexes, None where the map holds no such key.

HashMap_new == [k \in PatchIds |-> None]

\* The insertion as it would be were the value added to the one already held.
insert_merging(map, key, value) ==
    [map EXCEPT ![key] = IF IsSome(map[key])
                         THEN Some(Unwrap(map[key]) \o value)
                         ELSE Some(value)]

insert(map, key, value) == [map EXCEPT ![key] = Some(value)]

contains_key(map, key) == IsSome(map[key])

\* What the inputs of a consolidation are drawn from: whether saving the
\* bookmarked collection succeeds, whether git's signature is set, whether
\* the reply commands are prepared, the exit status of each, and whether
\* saving the reviewed map succeeds.  An input that is not read given the ones
\* before it is fixed to TRUE.
ConsolidateInputs(d) ==
    LET n == Len(d.patches)
        all_ok == [i \in 1..n |-> TRUE]
        input(bm_ok, sig, prep, exits, rev_ok) ==
            [save_bookmarked_ok |-> bm_ok, git_signature_set |-> sig,
             prepare_ok |-> prep, exits |-> exits, save_reviewed_ok |-> rev_ok]
    IN  {input(FALSE, TRUE, TRUE, all_ok, TRUE),
         input(TRUE, TRUE, TRUE, all_ok, TRUE)}
        \cup IF d.patchset_actions["ReplyWithReviewedBy"]
             THEN {input(TRUE, FALSE, TRUE, all_ok, TRUE),
                   input(TRUE, TRUE, FALSE, all_ok, TRUE)}
                  \cup {input(TRUE, TRUE, TRUE, exits, rev_ok) :
                          exits \in [1..n -> BOOLEAN], rev_ok \in BOOLEAN}
             ELSE {}

\* Lines 464-471: the bookmark flag applied to the bookmarked collection.
bookmark_step(d, bm) ==
    IF d.patchset_actions["Bookmark"]
    THEN bookmark_selected_patch(bm, d.representative_patch)
    ELSE unbookmark_selected_patch(bm, d.representative_patch)

\* Lines 480-502: the reply step, run when the reply flag is set.  The result
\* is what consolidate_patchset_actions then returns, the fields it has
\* written and the external calls made.
reply_step(d, reviewed, io) ==
    LET reply == reply_patchset_with_reviewed_by(d, io.git_signature_set,
                                                 io.prepare_ok, io.exits)
        inserted == insert(reviewed, d.representative_patch, reply.successful_indexes)
    IN  IF reply.ret = "Err"
        THEN [ret |-> "Err", error |-> reply.error, details |-> d,
              reviewed |-> reviewed, effects |-> reply.effects]
        ELSE IF reply.successful_indexes = <<>>
        THEN [ret |-> "Ok", error |-> "",
              details |-> toggle_action(d, "ReplyWithReviewedBy"),
              reviewed |-> reviewed, effects |-> reply.effects]
        ELSE IF ~io.save_reviewed_ok
        THEN [ret |-> "Err", error |-> "save_reviewed_patchsets", details |-> d,
              reviewed |-> inserted,
              effects |-> reply.effects \o
                          <<Effect("save_reviewed_patchsets", -1, FALSE)>>]
        ELSE [ret |-> "Ok", error |-> "",
              details |-> toggle_action(d, "ReplyWithReviewedBy"),
              reviewed |-> inserted,
              effects |-> reply.effects \o
                          <<Effect("save_reviewed_patchsets", -1, TRUE)>>]

\* Lines 458-505 as they would be were the result of saving the bookmarked
\* collection dropped instead of returned.
consolidate_ignoring_save_failure(d, bm, reviewed, io) ==
    LET bookmarked == bookmark_step(d, bm)
        saved == <<Effect("save_bookmarked_patchsets", -1, io.save_bookmarked_ok)>>
        reply == reply_step(d, reviewed, io)
    IN  IF ~d.patchset_actions["ReplyWithReviewedBy"]
        THEN [ret |-> "Ok", error |-> "", bookmarked |-> bookmarked, details |-> d,
              reviewed |-> reviewed, effects |-> saved]
        ELSE [ret |-> reply.ret, error |-> reply.error, bookmarked |-> bookmarked,
              details |-> reply.details, reviewed |-> reply.reviewed,
              effects |-> saved \o reply.effects]

\* Lines 458-505 as a function of the state read and the inputs.
consolidate(d, bm, reviewed, io) ==
    LET bookmarked == bookmark_step(d, bm)
        saved == <<Effect("save_bookmarked_patchsets", -1, io.save_bookmarked_ok)>>
        reply == reply_step(d, reviewed, io)
    IN  IF ~io.save_bookmarked_ok
        THEN [ret |-> "Err", error |-> "save_bookmarked_patchsets",
              bookmarked |-> bookmarked, details |-> d,
              reviewed |-> reviewed, effects |-> saved]
        ELSE IF ~d.patchset_actions["ReplyWithReviewedBy"]
        THEN [ret |-> "Ok", error |-> "", bookmarked |-> bookmarked, details |-> d,
              reviewed |-> reviewed, effects |-> saved]
        ELSE [ret |-> reply.ret, error |-> reply.error, bookmarked |-> bookmarked,
              details |-> reply.details, reviewed |-> reply.reviewed,
              effects |-> saved \o reply.effects]

\* The reply commands spawned among the external calls es.
Spawns(es) == SelectSeq(es, LAMBDA e : e.call = "spawn")

consolidate_patchset_actions ==
    /\ ~panicked
    /\ IF IsSome(patchset_details_and_actions_state)
       THEN \E io \in ConsolidateInputs(Unwrap(patchset_details_and_actions_state)) :
              \E out \in {consolidate(Unwrap(patchset_details_and_actions_state),
                                       bookmarked_patchsets, reviewed_patchsets, io)} :
                 /\ bookmarked_patchsets' = out.bookmarked
                 /\ patchset_details_and_actions_state' = Some(out.details)
                 /\ reviewed_patchsets' = out.reviewed
                 /\ last_call' = Returned("App::consolidate_patchset_actions",
                                          out.ret, out.error, out.effects)
                 /\ reply_runs' = IF Spawns(out.effects) # <<>>
                                  THEN reply_runs + 1
                                  ELSE reply_runs
                 /\ reply_runs' <= MaxReplyRuns
                 /\ UNCHANGED <<current_screen, list_vars, patchset_index,
                                latest_patchsets_state, env_vars, panicked>>
       ELSE Panic("App::consolidate_patchset_actions")

----
\* MailingListSelectionState.  A MailingList is represented by its name.

\* str::starts_with
starts_with(name, prefix) ==
    /\ Len(prefix) <= Len(name)
    /\ SubSeq(name, 1, Len(prefix)) = prefix

\* Lines 299-305: the loop pushing every list whose name starts with the text.
RECURSIVE matching_lists(_, _)
matching_lists(lists, text) ==
    IF lists = <<>>
    THEN <<>>
    ELSE IF starts_with(Head(lists), text)
    THEN <<Head(lists)>> \o matching_lists(Tail(lists), text)
    ELSE matching_lists(Tail(lists), text)

\* The method as it would be were it to keep the highlighted index.
process_possible_mailing_lists_keeping_index(lists, text) ==
    [possible_mailing_lists |-> matching_lists(lists, text),
     highlighted_list_index |-> highlighted_list_index]

\* Lines 298-309: the fields process_possible_mailing_lists writes.
process_possible_mailing_lists(lists, text) ==
    [possible_mailing_lists |-> matching_lists(lists, text),
     highlighted_list_index |-> 0]

list_unchanged_vars == <<current_screen, bookmark_vars, latest_patchsets_state,
                         patchset_details_and_actions_state, reviewed_patchsets,
                         env_vars, reply_runs, panicked>>

remove_last_target_list_char ==
    /\ ~panicked
    /\ IF target_list # <<>>
       THEN LET popped == SubSeq(target_list, 1, Len(target_list) - 1)
                processed == process_possible_mailing_lists(mailing_lists, popped)
            IN /\ target_list' = popped
               /\ possible_mailing_lists' = processed.possible_mailing_lists
               /\ highlighted_list_index' = processed.highlighted_list_index
               /\ UNCHANGED mailing_lists
       ELSE UNCHANGED list_vars
    /\ Ran("MailingListSelectionState::remove_last_target_list_char")
    /\ UNCHANGED list_unchanged_vars

push_char_to_target_list(ch) ==
    /\ ~panicked
    /\ Len(target_list) < MaxFilterLen
    /\ LET pushed == Append(target_list, ch)
           processed == process_possible_mailing_lists(mailing_lists, pushed)
       IN /\ target_list' = pushed
          /\ possible_mailing_lists' = processed.possible_mailing_lists
          /\ highlighted_list_index' = processed.highlighted_list_index
    /\ Ran("MailingListSelectionState::push_char_to_target_list")
    /\ UNCHANGED <<mailing_lists, list_unchanged_vars>>

clear_target_list ==
    /\ ~panicked
    /\ LET processed == process_possible_mailing_lists(mailing_lists, <<>>)
       IN /\ target_list' = <<>>
          /\ possible_mailing_lists' = processed.possible_mailing_lists
          /\ highlighted_list_index' = processed.highlighted_list_index
    /\ Ran("MailingListSelectionState::clear_target_list")
    /\ UNCHANGED <<mailing_lists, list_unchanged_vars>>

highlight_below_list ==
    /\ ~panicked
    /\ highlighted_list_index' =
          IF highlighted_list_index + 1 < Len(possible_mailing_lists)
          THEN highlighted_list_index + 1
          ELSE highlighted_list_index
    /\ Ran("MailingListSelectionState::highlight_below_list")
    /\ UNCHANGED <<mailing_lists, target_list, possible_mailing_lists,
                   list_unchanged_vars>>

highlight_above_list ==
    /\ ~panicked
    /\ highlighted_list_index' = saturating_sub(highlighted_list_index, 1)
    /\ Ran("MailingListSelectionState::highlight_above_list")
    /\ UNCHANGED <<mailing_lists, target_list, possible_mailing_lists,
                   list_unchanged_vars>>

\* The refresh as it would be were the filter cleared before the fetch.
refresh_clearing_first(fetched, save_ok) ==
    /\ ~panicked
    /\ LET op == "MailingListSelectionState::refresh_available_mailing_lists"
           lists == IF IsSome(fetched) THEN Unwrap(fetched) ELSE mailing_lists
           processed == process_possible_mailing_lists(lists, <<>>)
       IN /\ mailing_lists' = lists
          /\ target_list' = <<>>
          /\ possible_mailing_lists' = processed.possible_mailing_lists
          /\ highlighted_list_index' = processed.highlighted_list_index
          /\ last_call' =
                IF ~IsSome(fetched)
                THEN Returned(op, "Err", "fetch_available_lists",
                              <<Effect("fetch_available_lists", -1, FALSE)>>)
                ELSE IF save_ok
                THEN Returned(op, "Ok", "",
                              <<Effect("fetch_available_lists", -1, TRUE),
                                Effect("save_available_lists", -1, TRUE)>>)
                ELSE Returned(op, "Err", "save_available_lists",
                              <<Effect("fetch_available_lists", -1, TRUE),
                                Effect("save_available_lists", -1, FALSE)>>)
    /\ UNCHANGED list_unchanged_vars

\* Lines 258-278.  fetched is what fetch_available_lists returns (None for an
\* error), save_ok whether save_available_lists succeeds.
refresh_available_mailing_lists(fetched, save_ok) ==
    /\ ~panicked
    /\ LET op == "MailingListSelectionState::refresh_available_mailing_lists"
       IN IF IsSome(fetched)
          THEN LET processed == process_possible_mailing_lists(Unwrap(fetched), <<>>)
               IN /\ mailing_lists' = Unwrap(fetched)
                  /\ target_list' = <<>>
                  /\ possible_mailing_lists' = processed.possible_mailing_lists
                  /\ highlighted_list_index' = processed.highlighted_list_index
                  /\ last_call' = IF save_ok
                                  THEN Returned(op, "Ok", "",
                                                <<Effect("fetch_available_lists", -1, TRUE),
                                                  Effect("save_available_lists", -1, TRUE)>>)
                                  ELSE Returned(op, "Err", "save_available_lists",
                                                <<Effect("fetch_available_lists", -1, TRUE),
                                                  Effect("save_available_lists", -1, FALSE)>>)
          ELSE /\ UNCHANGED list_vars
               /\ last_call' = Returned(op, "Err", "fetch_available_lists",
                                        <<Effect("fetch_available_lists", -1, FALSE)>>)
    /\ UNCHANGED list_unchanged_vars

\* usize::MAX, held as the largest integer of the model checker: every length
\* and index of the model is far below it.
usize_MAX == 2147483647

\* usize subtraction as a build without overflow checks computes it.
wrapping_sub(a, b) == IF a >= b THEN a - b ELSE usize_MAX - (b - a) + 1

\* Lines 321-329.  `list_length - 1` underflows when the list is empty: a
\* build with overflow checks panics there, a build without them wraps.
has_valid_target_list(possible, index, overflow_checks) ==
    LET list_length == Len(possible)
        list_index == index
    IN  IF list_length < 1 /\ overflow_checks
        THEN "panic"
        ELSE IF list_index <= wrapping_sub(list_length, 1)
        THEN "true"
        ELSE "false"

Selection_has_valid_target_list ==
    /\ ~panicked
    /\ \E overflow_checks \in BOOLEAN :
          \E r \in {has_valid_target_list(possible_mailing_lists,
                                          highlighted_list_index, overflow_checks)} :
             IF r = "panic"
             THEN Panic("MailingListSelectionState::has_valid_target_list")
             ELSE /\ last_call' = Returned("MailingListSelectionState::has_valid_target_list",
                                           r, "", <<>>)
                  /\ UNCHANGED <<list_vars, list_unchanged_vars>>

----
\* Config (src/src/app/config.rs): [page_size, patchsets_cache_dir,
\* bookmarked_patchsets_path, mailing_lists_path, reviewed_patchsets_path,
\* logs_path, git_send_email_options, cache_dir, data_dir, max_log_age].
\* The strings are strings, format! is their concatenation.  The environment
\* maps each variable to None (unset) or Some(value).  A file is None (no such
\* file) or Some([kind, config]): kind "json" for the serialisation of a
\* Config, "partial" for a prefix of one, "empty", or "garbage" for anything
\* else.

\* Line 38.
DefaultPageSize == 30

\* Line 47.
DefaultMaxLogAge == 0

\* Lines 33-49; HOME is set.
Config_default(e) ==
    LET cache_dir == Unwrap(e["HOME"]) \o "/.cache/patch_hub"
        data_dir == Unwrap(e["HOME"]) \o "/.local/share/patch_hub"
    IN  [page_size |-> DefaultPageSize,
         patchsets_cache_dir |-> cache_dir \o "/patchsets",
         bookmarked_patchsets_path |-> data_dir \o "/bookmarked_patchsets.json",
         mailing_lists_path |-> data_dir \o "/mailing_lists.json",
         reviewed_patchsets_path |-> data_dir \o "/reviewed_patchsets.json",
         logs_path |-> data_dir \o "/logs",
         git_send_email_options |-> "--dry-run --suppress-cc=all",
         cache_dir |-> cache_dir,
         data_dir |-> data_dir,
         max_log_age |-> DefaultMaxLogAge]

\* Path::is_file.
is_file(fs, path) == path \in DOMAIN fs /\ IsSome(fs[path])

\* serde_json::from_str::<Config>: only the complete serialisation of a
\* Config parses.
serde_json_from_str(content) ==
    IF content.kind = "json" THEN content.config ELSE None

\* serde_json::to_writer_pretty(file, config), completed.
serialised(c) == [kind |-> "json", config |-> Some(c)]

\* Lines 61-64 and 134-137.
default_config_path(e) == Unwrap(e["HOME"]) \o "/.local/share/patch_hub/config.json"

\* Lines 51-73; HOME is set.
detect_patch_hub_config_file(e, fs) ==
    LET named == IF IsSome(e["PATCH_HUB_CONFIG_PATH"])
                    /\ is_file(fs, Unwrap(e["PATCH_HUB_CONFIG_PATH"]))
                 THEN serde_json_from_str(Unwrap(fs[Unwrap(e["PATCH_HUB_CONFIG_PATH"])]))
                 ELSE None
    IN  IF IsSome(named)
        THEN named
        ELSE IF is_file(fs, default_config_path(e))
        THEN serde_json_from_str(Unwrap(fs[default_config_path(e)]))
        ELSE None

\* The page sizes written in decimal that str::parse::<usize> is given.
PageSizes == {7, 10, DefaultPageSize}

\* str::parse::<usize>: Some(n) for the decimal writing of n, None otherwise.
parse_usize(text) ==
    IF \E n \in PageSizes : ToString(n) = text
    THEN Some(CHOOSE n \in PageSizes : ToString(n) = text)
    ELSE None

\* Lines 113-116.
set_cache_dir(c, cache_dir) ==
    [c EXCEPT !.patchsets_cache_dir = cache_dir \o "/patchsets",
              !.cache_dir = cache_dir]

\* Lines 118-124.
set_data_dir(c, data_dir) ==
    [c EXCEPT !.bookmarked_patchsets_path = data_dir \o "/bookmarked_patchsets.json",
              !.mailing_lists_path = data_dir \o "/mailing_lists.json",
              !.reviewed_patchsets_path = data_dir \o "/reviewed_patchsets.json",
              !.logs_path = data_dir \o "/logs",
              !.data_dir = data_dir]

\* Lines 109-111.
set_page_size(c, size) == [c EXCEPT !.page_size = size]

\* Lines 126-128.
set_git_send_email_option(c, options) == [c EXCEPT !.git_send_email_options = options]

\* Lines 75-91: the unwrap of line 77 panics on a page size that does not
\* parse.
override_with_env_vars(c, e) ==
    LET page == e["PATCH_HUB_PAGE_SIZE"]
        c1 == IF IsSome(page) THEN set_page_size(c, Unwrap(parse_usize(Unwrap(page)))) ELSE c
        c2 == IF IsSome(e["PATCH_HUB_CACHE_DIR"])
              THEN set_cache_dir(c1, Unwrap(e["PATCH_HUB_CACHE_DIR"]))
              ELSE c1
        c3 == IF IsSome(e["PATCH_HUB_DATA_DIR"])
              THEN set_data_dir(c2, Unwrap(e["PATCH_HUB_DATA_DIR"]))
              ELSE c2
        c4 == IF IsSome(e["PATCH_HUB_GIT_SEND_EMAIL_OPTIONS"])
              THEN set_git_send_email_option(
                       c3, Unwrap(e["PATCH_HUB_GIT_SEND_EMAIL_OPTIONS"]))
              ELSE c3
    IN  IF IsSome(page) /\ ~IsSome(parse_usize(Unwrap(page)))
        THEN [ret |-> "panic", config |-> c]
        ELSE [ret |-> "Ok", config |-> c4]

\* build as it would be were the file read last, over the environment.
Config_build_file_last(e, fs) ==
    IF ~IsSome(e["HOME"])
    THEN [ret |-> "panic", config |-> None]
    ELSE LET config_from_file == detect_patch_hub_config_file(e, fs)
             out == override_with_env_vars(Config_default(e), e)
         IN  [ret |-> out.ret,
              config |-> IF IsSome(config_from_file)
                         THEN config_from_file
                         ELSE Some(out.config)]

\* Lines 93-103: the unwrap of line 34 panics when HOME is not set.
Config_build(e, fs) ==
    IF ~IsSome(e["HOME"])
    THEN [ret |-> "panic", config |-> None]
    ELSE LET config_from_file == detect_patch_hub_config_file(e, fs)
             c == IF IsSome(config_from_file)
                  THEN Unwrap(config_from_file)
                  ELSE Config_default(e)
             out == override_with_env_vars(c, e)
         IN  [ret |-> out.ret, config |-> Some(out.config)]

----
\* App

app_unchanged_by_screen == <<list_vars, bookmark_vars, latest_patchsets_state,
                             patchset_details_and_actions_state, reviewed_patchsets,
                             env_vars, reply_runs, panicked>>

\* Lines 507-509.
set_current_screen(new_current_screen) ==
    /\ ~panicked
    /\ current_screen' = new_current_screen
    /\ Ran("App::set_current_screen")
    /\ UNCHANGED app_unchanged_by_screen

\* Lines 392-404.  Indexing possible_mailing_lists out of range panics.
init_latest_patchsets_state ==
    /\ ~panicked
    /\ IF highlighted_list_index < Len(possible_mailing_lists)
       THEN /\ latest_patchsets_state' =
                  Some(LatestPatchsetsState_new(
                          possible_mailing_lists[highlighted_list_index + 1], page_size))
            /\ Ran("App::init_latest_patchsets_state")
            /\ UNCHANGED <<current_screen, list_vars, bookmark_vars,
                           patchset_details_and_actions_state, reviewed_patchsets,
                           env_vars, reply_runs, panicked>>
       ELSE Panic("App::init_latest_patchsets_state")

\* Lines 406-408.
reset_latest_patchsets_state ==
    /\ ~panicked
    /\ latest_patchsets_state' = None
    /\ Ran("App::reset_latest_patchsets_state")
    /\ UNCHANGED <<current_screen, list_vars, bookmark_vars,
                   patchset_details_and_actions_state, reviewed_patchsets,
                   env_vars, reply_runs, panicked>>

\* Lines 415-426: the series the details are opened for, None where
\* get_selected_patchset or the unwrap of the latest state panics.
selected_for_details(screen) ==
    IF screen = "BookmarkedPatchsets"
    THEN Bookmarked_get_selected_patchset
    ELSE IF IsSome(latest_patchsets_state)
    THEN Latest_get_selected_patchset(Unwrap(latest_patchsets_state))
    ELSE None

\* The initial bookmark flag as it would be were the collection not looked at.
is_patchset_bookmarked_unchecked(screen, representative_patch) == TRUE

\* Lines 412-424: the initial bookmark flag.
is_patchset_bookmarked(screen, representative_patch) ==
    IF screen = "LatestPatchsets"
    THEN contains(bookmarked_patchsets, representative_patch)
    ELSE TRUE

\* Lines 410-452.  download_ok and split_ok are whether download_patchset and
\* split_patchset succeed, n the number of texts the series is split into.
\* The screen passed is recorded as the first effect of the call.
init_patchset_details_and_actions_state(screen, download_ok, split_ok, n) ==
    /\ ~panicked
    /\ LET op == "App::init_patchset_details_and_actions_state"
           failed(error) ==
               /\ last_call' = Returned(op, "Err", error, <<Effect(screen, -1, TRUE)>>)
               /\ UNCHANGED <<details_unchanged_vars,
                              patchset_details_and_actions_state, reply_runs>>
       IN IF screen \notin {"BookmarkedPatchsets", "LatestPatchsets"}
          THEN failed("Invalid screen passed as argument")
          ELSE IF selected_for_details(screen) = None
          THEN Panic(op)
          ELSE IF ~download_ok
          THEN failed("download_patchset")
          ELSE IF ~split_ok
          THEN failed("split_patchset")
          ELSE LET representative_patch == Unwrap(selected_for_details(screen))
               IN /\ patchset_details_and_actions_state' = Some(
                        [representative_patch |-> representative_patch,
                         patches |-> Texts(n),
                         preview_index |-> 0,
                         patchset_actions |->
                            [a \in PatchsetAction |->
                                IF a = "Bookmark"
                                THEN is_patchset_bookmarked(screen, representative_patch)
                                ELSE FALSE],
                         last_screen |-> screen])
                  /\ reply_runs' = 0
                  /\ last_call' = Returned(op, "Ok", "", <<Effect(screen, -1, TRUE)>>)
                  /\ UNCHANGED details_unchanged_vars

\* Lines 454-456.
reset_patchset_details_and_actions_state ==
    /\ ~panicked
    /\ patchset_details_and_actions_state' = None
    /\ reply_runs' = 0
    /\ Ran("App::reset_patchset_details_and_actions_state")
    /\ UNCHANGED <<current_screen, list_vars, bookmark_vars, latest_patchsets_state,
                   reviewed_patchsets, env_vars, panicked>>

----
\* The mailing lists known to the remote archive, as loaded or fetched.

Name_amd_gfx == <<"a", "m", "d", "-", "g", "f", "x">>

Name_linux_kernel == <<"l", "i", "n", "u", "x", "-", "k", "e", "r", "n", "e", "l">>

Name_linux_mm == <<"l", "i", "n", "u", "x", "-", "m", "m">>

Name_Linux_mm == <<"L", "i", "n", "u", "x", "-", "m", "m">>

Name_li == <<"l", "i">>

Universes == {<<>>,
              <<Name_amd_gfx, Name_linux_kernel, Name_linux_mm>>,
              <<Name_li, Name_Linux_mm, Name_linux_mm, Name_amd_gfx>>}

\* The characters typed into the filter.
Chars == {"l", "i", "n", "u", "x"}

----
\* The environment variables the program reads.
EnvNames == {"HOME", "PATCH_HUB_CONFIG_PATH", "PATCH_HUB_PAGE_SIZE",
             "PATCH_HUB_CACHE_DIR", "PATCH_HUB_DATA_DIR",
             "PATCH_HUB_GIT_SEND_EMAIL_OPTIONS"}

UnsetEnv == [name \in EnvNames |-> None]

HomeEnv == [UnsetEnv EXCEPT !["HOME"] = Some("/home/user")]

\* The path PATCH_HUB_CONFIG_PATH names when it is set.
NamedConfigPath == "/etc/patch_hub.json"

\* The configuration files and their temporary files.
ConfigPaths == {NamedConfigPath, NamedConfigPath \o ".tmp",
                default_config_path(HomeEnv), default_config_path(HomeEnv) \o ".tmp"}

NoFiles == [path \in ConfigPaths |-> None]

\* No save_patch_hub_config is running.
Idle == [pc |-> "idle", path |-> "", tmp |-> "", old |-> None, at |-> ""]

\* App::new, lines 351-390: the state after construction.  The collections are
\* what the files held (empty when a file is missing or corrupt); the
\* bookmarked collection was written by the application, without repetition.
\* The Config is the default one with the given page size.
AppNew(lists, bookmarks, reviewed, size, feed, ops) ==
    /\ config = Some(set_page_size(Config_default(HomeEnv), size))
    /\ env = HomeEnv
    /\ files = NoFiles
    /\ saving = Idle
    /\ current_screen = "MailingListSelection"
    /\ mailing_lists = lists
    /\ target_list = <<>>
    /\ possible_mailing_lists = lists
    /\ highlighted_list_index = 0
    /\ bookmarked_patchsets = bookmarks
    /\ patchset_index = 0
    /\ latest_patchsets_state = None
    /\ patchset_details_and_actions_state = None
    /\ reviewed_patchsets = reviewed
    /\ page_size = size
    /\ feed_len = feed
    /\ watched = ops
    /\ last_call = NotWatched
    /\ reply_runs = 0
    /\ panicked = FALSE

\* The number of messages the series p is split into: the first series is the
\* longest, the others hold a single message.
MsgsOf(p) == IF p = 1 THEN MaxMsgs ELSE 1

\* The application entering and leaving the details of a bookmarked series,
\* setting its actions and consolidating them; every series starts bookmarked.
Init ==
    AppNew(<<Name_li>>, [i \in 1..NumSeries |-> i], HashMap_new, NumSeries, NumSeries,
           {"App::consolidate_patchset_actions"})

\* Entering the details from a screen: the download or the split may fail, a
\* series p is split into MsgsOf(p) messages.
EnterDetails ==
    \E s \in CurrentScreen :
        \E outcome \in {"download fails", "split fails", "ok"} :
            /\ s \notin {"BookmarkedPatchsets", "LatestPatchsets"} => outcome = "ok"
            /\ init_patchset_details_and_actions_state(
                  s, outcome # "download fails", outcome = "ok",
                  IF selected_for_details(s) = None
                  THEN 0
                  ELSE MsgsOf(Unwrap(selected_for_details(s))))

Next ==
    \/ Bookmarked_select_below_patchset
    \/ Bookmarked_select_above_patchset
    \/ EnterDetails
    \/ reset_patchset_details_and_actions_state
    \/ toggle_bookmark_action
    \/ toggle_reply_with_reviewed_by_action
    \/ consolidate_patchset_actions

Spec == Init /\ [][Next]_vars

\* The bookmarks: the details are entered from the bookmarked series and from
\* the latest series of a list, the bookmark flag is toggled and consolidated;
\* the bookmarked collection starts as any collection without repetition.
InitBookmarks ==
    \E bookmarks \in DistinctSeqs(1..NumSeries, NumSeries) :
        AppNew(<<Name_li>>, bookmarks, HashMap_new, NumSeries, NumSeries,
               {"App::consolidate_patchset_actions"})

NextBookmarks ==
    \/ init_latest_patchsets_state
    \/ Latest_fetch_current_page
    \/ Latest_select_below_patchset
    \/ Bookmarked_select_below_patchset
    \/ Bookmarked_select_above_patchset
    \/ EnterDetails
    \/ reset_patchset_details_and_actions_state
    \/ toggle_bookmark_action
    \/ consolidate_patchset_actions

SpecBookmarks == InitBookmarks /\ [][NextBookmarks]_vars

-----------------------------------------------------------------------------
\* What the properties of the consolidation read off a state.

ConsolidateOp == "App::consolidate_patchset_actions"

\* The last call was a consolidation that returned (it found a details state).
Consolidated ==
    /\ last_call.op = ConsolidateOp
    /\ last_call.ret \in {"Ok", "Err"}

Details == Unwrap(patchset_details_and_actions_state)

ReplyFlag == Details.patchset_actions["ReplyWithReviewedBy"]

BookmarkFlag == Details.patchset_actions["Bookmark"]

ReplyCalls == {"get_git_signature", "prepare_reply_patchset_with_reviewed_by",
               "spawn", "save_reviewed_patchsets"}

\* The reply step was entered: its first call is the read of the git signature.
ReplyStepRan(es) == \E i \in 1..Len(es) : es[i].call = "get_git_signature"

\* The reply operations were prepared.
Prepared(es) ==
    \E i \in 1..Len(es) :
        es[i].call = "prepare_reply_patchset_with_reviewed_by" /\ es[i].ok

\* The n operations 0..n-1 were each executed once, in order.
AllExecuted(es, n) ==
    \E sp \in {Spawns(es)} :
        /\ Len(sp) = n
        /\ \A i \in 1..n : sp[i].index = i - 1

\* The indexes of the operations that exited successfully.
Succeeded(es) ==
    {es[i].index : i \in {j \in 1..Len(es) : es[j].call = "spawn" /\ es[j].ok}}

RECURSIVE InIncreasingOrder(_)
InIncreasingOrder(S) ==
    IF S = {}
    THEN <<>>
    ELSE LET m == CHOOSE x \in S : \A y \in S : x <= y
         IN  <<m>> \o InIncreasingOrder(S \ {m})

Range(q) == {q[i] : i \in 1..Len(q)}

\* C1: the bookmarked collection is saved before anything of the reply step,
\* and when that save fails the consolidation returns its error and nothing of
\* the reply step is called, whatever the two flags are.
C1_PersistBeforeReply ==
    Consolidated =>
        LET es == last_call.effects
        IN  /\ Len(es) >= 1
            /\ es[1].call = "save_bookmarked_patchsets"
            /\ \A i \in 2..Len(es) : es[i].call \in ReplyCalls
            /\ ~es[1].ok => /\ Len(es) = 1
                            /\ last_call.ret = "Err"
                            /\ last_call.error = "save_bookmarked_patchsets"

\* A consolidation with the reply flag set whose save of the bookmarks failed.
C1_Witness ==
    /\ Consolidated
    /\ ReplyFlag
    /\ last_call.ret = "Err"
    /\ last_call.error = "save_bookmarked_patchsets"
    /\ last_call.effects = <<Effect("save_bookmarked_patchsets", -1, FALSE)>>

\* C2: a consolidation that ran the reply step returns with the reply flag
\* false, whether that step succeeded or not; one that did not run it leaves
\* the flag as it was.
C2_ReplyFlagCleared ==
    [][Consolidated' =>
          IF ReplyStepRan(last_call'.effects)
          THEN ~(ReplyFlag')
          ELSE ReplyFlag' = ReplyFlag]_vars

\* C3: between two toggles of the reply flag on one details state the reply
\* operations are executed by at most one consolidation.
C3_NoResend == reply_runs <= 1

\* C4 as stated: after a consolidation that prepared the operations, every
\* operation was executed, the entry of the series is the increasing sequence
\* of the indexes that succeeded, and the reply flag is false.
C4_Original ==
    (Consolidated /\ Prepared(last_call.effects)) =>
        /\ AllExecuted(last_call.effects, Len(Details.patches))
        /\ reviewed_patchsets[Details.representative_patch]
              = Some(InIncreasingOrder(Succeeded(last_call.effects)))
        /\ ~ReplyFlag

\* C4 amended: every operation is executed whatever the others did, and the
\* workflow returns the increasing sequence of the indexes that succeeded.
\* When that sequence is not empty it becomes the entry of the series; when it
\* is empty the map is left as it was.  The reply flag is false when the
\* consolidation returned Ok and still true when it returned the error of
\* saving the reviewed map.
C4_Amended ==
    [][(Consolidated' /\ Prepared(last_call'.effects)) =>
          \E d \in {Details}, succ \in {InIncreasingOrder(Succeeded(last_call'.effects))} :
              /\ AllExecuted(last_call'.effects, Len(d.patches))
              /\ succ # <<>> => reviewed_patchsets'[d.representative_patch] = Some(succ)
              /\ succ = <<>> => reviewed_patchsets' = reviewed_patchsets
              /\ ~(ReplyFlag') <=> last_call'.ret = "Ok"]_vars

\* Operations 0 and 2 succeeded, operation 1 failed: the entry is <<0, 2>>.
C4_Witness ==
    /\ Consolidated
    /\ last_call.ret = "Ok"
    /\ [i \in 1..Len(Spawns(last_call.effects)) |-> Spawns(last_call.effects)[i].ok]
          = <<TRUE, FALSE, TRUE>>
    /\ reviewed_patchsets[Details.representative_patch] = Some(<<0, 2>>)
    /\ ~ReplyFlag

\* C5 as stated: successful indexes for a series that has an entry are merged
\* into it, the entries of the other series are unchanged.
C5_Original ==
    [][(/\ Consolidated'
        /\ Succeeded(last_call'.effects) # {}
        /\ contains_key(reviewed_patchsets, Details.representative_patch)) =>
          LET k == Details.representative_patch
          IN  /\ Range(Unwrap(reviewed_patchsets[k])) \cup Succeeded(last_call'.effects)
                    \subseteq Range(Unwrap(reviewed_patchsets'[k]))
              /\ \A o \in PatchIds \ {k} :
                    reviewed_patchsets'[o] = reviewed_patchsets[o]]_vars

\* C5 amended: successful indexes for a series that has an entry replace it;
\* the entries of the other series are unchanged.
C5_Amended ==
    [][(/\ Consolidated'
        /\ Succeeded(last_call'.effects) # {}
        /\ contains_key(reviewed_patchsets, Details.representative_patch)) =>
          LET k == Details.representative_patch
          IN  /\ reviewed_patchsets'[k]
                    = Some(InIncreasingOrder(Succeeded(last_call'.effects)))
              /\ \A o \in PatchIds \ {k} :
                    reviewed_patchsets'[o] = reviewed_patchsets[o]]_vars

\* A consolidation found an entry for the series and only operation 1
\* succeeded: the entry is <<1>>, while another series keeps its own entry.
C5_Witness ==
    /\ Consolidated
    /\ last_call.found.reviewed
    /\ Succeeded(last_call.effects) = {1}
    /\ reviewed_patchsets[Details.representative_patch] = Some(<<1>>)
    /\ \E o \in PatchIds \ {Details.representative_patch} :
          contains_key(reviewed_patchsets, o)

\* C6: the bookmarked collection never holds a series twice; a consolidation
\* with the bookmark flag set on a bookmarked series, or unset on a series
\* that is not bookmarked, leaves the collection as it was.
C6_SetSemantics ==
    /\ []NoDuplicates(bookmarked_patchsets)
    /\ [][Consolidated' =>
            LET k == Details.representative_patch
                on == Details.patchset_actions["Bookmark"]
                held == contains(bookmarked_patchsets, k)
            IN  /\ (on /\ held) => bookmarked_patchsets' = bookmarked_patchsets
                /\ (~on /\ ~held) => bookmarked_patchsets' = bookmarked_patchsets
                /\ contains(bookmarked_patchsets', k) <=> on]_vars

\* A consolidation with the bookmark flag set found the series bookmarked
\* among NumSeries bookmarks.
C6_Witness ==
    /\ Consolidated
    /\ BookmarkFlag
    /\ last_call.found.bookmarked
    /\ Len(bookmarked_patchsets) = NumSeries

-----------------------------------------------------------------------------
\* The cursors: moves over the bookmarked series, the possible mailing lists
\* and the messages of a series, the lists being of any length up to the bounds.

InitCursor ==
    \E lists \in Universes, bookmarks \in DistinctSeqs(1..NumSeries, NumSeries) :
        AppNew(lists, bookmarks, HashMap_new, NumSeries, NumSeries, {})

\* Entering the details of the selected bookmark, the series being split into
\* any number of messages.
EnterDetailsOfAnyLength ==
    \E n \in 0..MaxMsgs :
        init_patchset_details_and_actions_state("BookmarkedPatchsets", TRUE, TRUE, n)

NextCursor ==
    \/ Bookmarked_select_below_patchset
    \/ Bookmarked_select_above_patchset
    \/ highlight_below_list
    \/ highlight_above_list
    \/ EnterDetailsOfAnyLength
    \/ reset_patchset_details_and_actions_state
    \/ preview_next_patch
    \/ preview_previous_patch

SpecCursor == InitCursor /\ [][NextCursor]_vars

InRange(index, length) ==
    IF length = 0 THEN index = 0 ELSE 0 <= index /\ index < length

\* C7: whatever cursor moves were made, each cursor is inside its list, or 0
\* when the list is empty.
C7_CursorsInRange ==
    /\ InRange(patchset_index, Len(bookmarked_patchsets))
    /\ InRange(highlighted_list_index, Len(possible_mailing_lists))
    /\ IsSome(patchset_details_and_actions_state) =>
          InRange(Details.preview_index, Len(Details.patches))

\* Every cursor stands on the last item of a list of two or more.
C7_Witness ==
    /\ Len(bookmarked_patchsets) >= 2
    /\ patchset_index = Len(bookmarked_patchsets) - 1
    /\ Len(possible_mailing_lists) >= 2
    /\ highlighted_list_index = Len(possible_mailing_lists) - 1
    /\ IsSome(patchset_details_and_actions_state)
    /\ Len(Details.patches) >= 2
    /\ Details.preview_index = Len(Details.patches) - 1

-----------------------------------------------------------------------------
\* The latest patchsets of one mailing list: fetching and paging over feeds of
\* every length up to MaxFeed, with every page size up to MaxPageSize.

FetchOp == "LatestPatchsetsState::fetch_current_page"

IncrementOp == "LatestPatchsetsState::increment_page"

InitLatest ==
    \E size \in 0..MaxPageSize, feed \in 0..MaxFeed :
        AppNew(<<Name_li>>, <<>>, HashMap_new, size, feed, {FetchOp, IncrementOp})

NextLatest ==
    \/ init_latest_patchsets_state
    \/ reset_latest_patchsets_state
    \/ Latest_fetch_current_page
    \/ Latest_select_below_patchset
    \/ Latest_select_above_patchset
    \/ Latest_increment_page
    \/ Latest_decrement_page

SpecLatest == InitLatest /\ [][NextLatest]_vars

Latest == Unwrap(latest_patchsets_state)

Fetched == Len(Latest.representative_patches_ids)

\* A step of increment_page that follows a successful fetch_current_page.
IncrementAfterFetch ==
    /\ last_call.op = FetchOp
    /\ last_call.ret = "Ok"
    /\ last_call'.op = IncrementOp

\* C8 as stated: after a successful fetch for page P and increment_page the
\* cursor is page_size * P and does not exceed the number of items fetched.
C8_Original ==
    [][IncrementAfterFetch =>
          /\ Latest'.patchset_index = Latest.page_size * Latest.page_number
          /\ Latest'.patchset_index <= Fetched']_vars

\* C8 amended: after a successful fetch for page P and increment_page, when
\* at least page_size * P items are fetched the page is P + 1 and the cursor
\* is page_size * P; when the feed ended before, page and cursor are as they
\* were.  The cursor does not exceed the number of items fetched.
C8_Amended ==
    [][IncrementAfterFetch =>
          /\ IF Fetched >= Latest.page_size * Latest.page_number
             THEN /\ Latest'.page_number = Latest.page_number + 1
                  /\ Latest'.patchset_index = Latest.page_size * Latest.page_number
             ELSE Latest' = Latest
          /\ Latest'.patchset_index <= Fetched']_vars

\* The feed ended at page_size * P items: page 2 of size 2, cursor 2 of 2.
C8_Witness ==
    /\ IsSome(latest_patchsets_state)
    /\ last_call.op = IncrementOp
    /\ Latest.page_size = 2
    /\ Latest.page_number = 2
    /\ Latest.patchset_index = 2
    /\ Fetched = 2
    /\ feed_len = 2

\* C9 as stated: increment_page changes nothing unless the item at index
\* page_size * page_number is fetched; when it is, the page number grows by
\* one and the cursor is the first index of that page.
C9_Original ==
    [][last_call'.op = IncrementOp =>
          IF Latest.page_size * Latest.page_number < Fetched
          THEN /\ Latest'.page_number = Latest.page_number + 1
               /\ Latest'.patchset_index = Latest.page_size * (Latest'.page_number - 1)
          ELSE Latest' = Latest]_vars

\* C9 amended: increment_page changes nothing when fewer than
\* page_size * page_number items are fetched; otherwise the page number grows
\* by one, the cursor is the first index of that page and nothing else changes.
C9_Amended ==
    [][last_call'.op = IncrementOp =>
          IF Fetched < Latest.page_size * Latest.page_number
          THEN Latest' = Latest
          ELSE Latest' = [Latest EXCEPT
                            !.page_number = Latest.page_number + 1,
                            !.patchset_index = Latest.page_size * Latest.page_number]]_vars

\* increment_page was called with one item fetched for a page of two: the
\* page is still the first.
C9_Witness ==
    /\ IsSome(latest_patchsets_state)
    /\ last_call.op = IncrementOp
    /\ Latest.page_size = 2
    /\ Latest.page_number = 1
    /\ Latest.patchset_index = 0
    /\ Fetched = 1

-----------------------------------------------------------------------------
\* The selection of a mailing list: edits of the filter and moves of the
\* highlight over each of the universes.

PushOp == "MailingListSelectionState::push_char_to_target_list"

RemoveOp == "MailingListSelectionState::remove_last_target_list_char"

ClearOp == "MailingListSelectionState::clear_target_list"

InitLists ==
    \E lists \in Universes :
        AppNew(lists, <<>>, HashMap_new, NumSeries, NumSeries,
               {PushOp, RemoveOp, ClearOp})

TypeChar == \E ch \in Chars : push_char_to_target_list(ch)

Refresh ==
    \E fetched \in {None} \cup {Some(u) : u \in Universes}, save_ok \in BOOLEAN :
        refresh_available_mailing_lists(fetched, save_ok)

NextLists ==
    \/ TypeChar
    \/ remove_last_target_list_char
    \/ clear_target_list
    \/ highlight_below_list
    \/ highlight_above_list
    \/ Refresh

SpecLists == InitLists /\ [][NextLists]_vars

\* The lists of the universe whose name starts with the text, in their order.
Matches(lists, text) ==
    SelectSeq(lists, LAMBDA name :
                        /\ Len(name) >= Len(text)
                        /\ \A i \in 1..Len(text) : name[i] = text[i])

\* The step is an edit of the filter.
FilterEdited == last_call'.op \in {PushOp, RemoveOp, ClearOp}

\* C10 as stated: after every edit of the filter the possible lists are the
\* lists of the universe that start with the filter and the highlight is 0.
C10_Original ==
    [][FilterEdited =>
          /\ possible_mailing_lists' = Matches(mailing_lists', target_list')
          /\ highlighted_list_index' = 0]_vars

\* C10 amended: after every edit of the filter the possible lists are the
\* lists of the universe that start with the filter; the highlight is 0,
\* except that removing the last character of an empty filter leaves the
\* filter, the possible lists and the highlight as they were.
C10_Amended ==
    [][FilterEdited =>
          /\ possible_mailing_lists' = Matches(mailing_lists', target_list')
          /\ IF last_call'.op = RemoveOp /\ target_list = <<>>
             THEN UNCHANGED list_vars
             ELSE highlighted_list_index' = 0]_vars

\* The filter linux typed over amd-gfx, linux-kernel, linux-mm.
C10_Witness ==
    /\ last_call.op = PushOp
    /\ mailing_lists = <<Name_amd_gfx, Name_linux_kernel, Name_linux_mm>>
    /\ target_list = <<"l", "i", "n", "u", "x">>
    /\ possible_mailing_lists = <<Name_linux_kernel, Name_linux_mm>>
    /\ highlighted_list_index = 0

-----------------------------------------------------------------------------
\* The selection of a mailing list as its caller sees it: the filter is
\* edited, the highlight moved, the universe refreshed, and the caller asks
\* whether the highlight is a valid target.

HasValidOp == "MailingListSelectionState::has_valid_target_list"

RefreshOp == "MailingListSelectionState::refresh_available_mailing_lists"

InitTarget ==
    \E lists \in Universes :
        AppNew(lists, <<>>, HashMap_new, NumSeries, NumSeries,
               {HasValidOp, RefreshOp})

NextTarget ==
    \/ TypeChar
    \/ remove_last_target_list_char
    \/ clear_target_list
    \/ highlight_below_list
    \/ highlight_above_list
    \/ Refresh
    \/ Selection_has_valid_target_list

SpecTarget == InitTarget /\ [][NextTarget]_vars

\* C11: has_valid_target_list returns true exactly when the highlighted index
\* addresses an entry of the possible lists, and returns false, without
\* failing, when there is none.
C11_HasValidTarget ==
    last_call.op = HasValidOp =>
        last_call.ret = IF highlighted_list_index < Len(possible_mailing_lists)
                        THEN "true"
                        ELSE "false"

\* The refresh returned the error of the remote fetch.
RefreshFetchFailed(call) ==
    /\ call.op = RefreshOp
    /\ call.effects[1] = Effect("fetch_available_lists", -1, FALSE)

\* C16: a refresh whose remote fetch fails returns that error, leaves the
\* universe, the filter, the possible lists and the highlight as they were,
\* and saves nothing.
C16_RefreshFailureKeepsState ==
    [][RefreshFetchFailed(last_call') =>
          /\ last_call'.ret = "Err"
          /\ last_call'.error = "fetch_available_lists"
          /\ \A i \in 1..Len(last_call'.effects) :
                last_call'.effects[i].call # "save_available_lists"
          /\ UNCHANGED list_vars]_vars

\* A failed refresh with the filter l typed and the highlight on the second
\* of the lists it matches.
C16_Witness ==
    /\ RefreshFetchFailed(last_call)
    /\ last_call.ret = "Err"
    /\ target_list = <<"l">>
    /\ Len(possible_mailing_lists) = 2
    /\ highlighted_list_index = 1

-----------------------------------------------------------------------------
\* The resolution of the Config: the environment and the configuration files
\* are what the user left, Config::build reads them, and the base directories
\* are set afterwards.

BuildOp == "Config::build"

config_unchanged_vars == <<current_screen, list_vars, bookmark_vars,
                          latest_patchsets_state,
                          patchset_details_and_actions_state, reviewed_patchsets,
                          feed_len, watched, reply_runs>>

\* Lines 93-103, as App::new calls it on line 352.
Build ==
    /\ ~panicked
    /\ config = None
    /\ \E out \in {Config_build(env, files)} :
          IF out.ret = "panic"
          THEN /\ panicked' = TRUE
               /\ last_call' = Returned(BuildOp, "panic", "", <<>>)
               /\ UNCHANGED <<config, page_size>>
          ELSE /\ config' = out.config
               /\ page_size' = Unwrap(out.config).page_size
               /\ last_call' = Returned(BuildOp, "Ok", "", <<>>)
               /\ UNCHANGED panicked
    /\ UNCHANGED <<env, files, saving, config_unchanged_vars>>

\* The directories the setters and the environment name.
Dirs == {"/tmp/cache", "/srv/hub"}

\* Lines 113-116.
Config_set_cache_dir ==
    /\ ~panicked
    /\ IsSome(config)
    /\ saving.pc = "idle"
    /\ \E dir \in Dirs : config' = Some(set_cache_dir(Unwrap(config), dir))
    /\ last_call' = Returned("Config::set_cache_dir", "()", "", <<>>)
    /\ UNCHANGED <<page_size, panicked, env, files, saving, config_unchanged_vars>>

\* Lines 118-124.
Config_set_data_dir ==
    /\ ~panicked
    /\ IsSome(config)
    /\ saving.pc = "idle"
    /\ \E dir \in Dirs : config' = Some(set_data_dir(Unwrap(config), dir))
    /\ last_call' = Returned("Config::set_data_dir", "()", "", <<>>)
    /\ UNCHANGED <<page_size, panicked, env, files, saving, config_unchanged_vars>>

\* A Config the program wrote to its file: the paths are those set_cache_dir
\* and set_data_dir derive.
SavedConfig ==
    set_page_size(set_data_dir(set_cache_dir(Config_default(HomeEnv), "/var/cache/hub"),
                               "/var/lib/hub"), 7)

\* A Config file the user edited: the cache directory was changed and the
\* patchsets cache directory was not.
EditedConfig == [SavedConfig EXCEPT !.cache_dir = "/mnt/cache"]

\* What a configuration file holds.
FileContents == {None,
                 Some([kind |-> "garbage", config |-> None]),
                 Some(serialised(SavedConfig)),
                 Some(serialised(EditedConfig))}

\* What the user left in the environment.
Environments ==
    {e \in [EnvNames -> {None, Some("/home/user"), Some(NamedConfigPath), Some("10"),
                         Some("ten"), Some("/tmp/cache"), Some("/srv/hub"),
                         Some("--dry-run")}] :
        /\ e["HOME"] \in {None, Some("/home/user")}
        /\ e["PATCH_HUB_CONFIG_PATH"] \in {None, Some(NamedConfigPath)}
        /\ e["PATCH_HUB_PAGE_SIZE"] \in {None, Some("10"), Some("ten")}
        /\ e["PATCH_HUB_CACHE_DIR"] \in {None, Some("/tmp/cache")}
        /\ e["PATCH_HUB_DATA_DIR"] \in {None, Some("/srv/hub")}
        /\ e["PATCH_HUB_GIT_SEND_EMAIL_OPTIONS"] \in {None, Some("--dry-run")}}

InitConfig ==
    /\ config = None
    /\ env \in Environments
    /\ \E named, default \in FileContents :
          files = [NoFiles EXCEPT ![NamedConfigPath] = named,
                                  ![default_config_path(HomeEnv)] = default]
    /\ saving = Idle
    /\ page_size = 0
    /\ current_screen = "MailingListSelection"
    /\ mailing_lists = <<>>
    /\ target_list = <<>>
    /\ possible_mailing_lists = <<>>
    /\ highlighted_list_index = 0
    /\ bookmarked_patchsets = <<>>
    /\ patchset_index = 0
    /\ latest_patchsets_state = None
    /\ patchset_details_and_actions_state = None
    /\ reviewed_patchsets = HashMap_new
    /\ feed_len = 0
    /\ watched = {BuildOp}
    /\ last_call = NotWatched
    /\ reply_runs = 0
    /\ panicked = FALSE

NextConfig ==
    \/ Build
    \/ Config_set_cache_dir
    \/ Config_set_data_dir

SpecConfig == InitConfig /\ [][NextConfig]_vars

\* path is a path under the directory dir.
IsUnder(path, dir) ==
    /\ Len(path) > Len(dir) + 1
    /\ SubSeq(path, 1, Len(dir) + 1) = dir \o "/"

\* C12: in every Config that build returned and the setters changed, the
\* patchsets cache directory is under the cache directory, and the bookmarked,
\* mailing lists and reviewed files and the logs directory are under the data
\* directory.
C12_DerivedPathsConsistent ==
    IsSome(config) =>
        /\ IsUnder(Unwrap(config).patchsets_cache_dir, Unwrap(config).cache_dir)
        /\ IsUnder(Unwrap(config).bookmarked_patchsets_path, Unwrap(config).data_dir)
        /\ IsUnder(Unwrap(config).mailing_lists_path, Unwrap(config).data_dir)
        /\ IsUnder(Unwrap(config).reviewed_patchsets_path, Unwrap(config).data_dir)
        /\ IsUnder(Unwrap(config).logs_path, Unwrap(config).data_dir)

\* The value of a field after the resolution: the override when it is set,
\* else the file's when a file was parsed, else the default.
Layered(override, from_file, file_value, default_value) ==
    IF IsSome(override) THEN Unwrap(override)
    ELSE IF from_file THEN file_value
    ELSE default_value

\* The Config the step built has each field from the latest layer that sets it.
BuiltInLayers(c, e, fs) ==
    \E parsed \in {detect_patch_hub_config_file(e, fs)} :
    \E file \in {IF IsSome(parsed) THEN Unwrap(parsed) ELSE Config_default(e)} :
        /\ ToString(c.page_size) =
              Layered(e["PATCH_HUB_PAGE_SIZE"], IsSome(parsed),
                      ToString(file.page_size), ToString(DefaultPageSize))
        /\ c.cache_dir =
              Layered(e["PATCH_HUB_CACHE_DIR"], IsSome(parsed), file.cache_dir,
                      Unwrap(e["HOME"]) \o "/.cache/patch_hub")
        /\ c.data_dir =
              Layered(e["PATCH_HUB_DATA_DIR"], IsSome(parsed), file.data_dir,
                      Unwrap(e["HOME"]) \o "/.local/share/patch_hub")
        /\ c.git_send_email_options =
              Layered(e["PATCH_HUB_GIT_SEND_EMAIL_OPTIONS"], IsSome(parsed),
                      file.git_send_email_options, "--dry-run --suppress-cc=all")

\* No configuration file is there and only the page size is overridden, by 10.
OnlyPageSizeTen ==
    /\ files = NoFiles
    /\ env = [HomeEnv EXCEPT !["PATCH_HUB_PAGE_SIZE"] = Some("10")]

\* C13: the Config that build returns has each of the page size, the cache
\* directory, the data directory and the mail options from its environment
\* override when that is set, else from the file when one was parsed, else
\* from the defaults; with no file and only the page size overridden by 10 it
\* is the default Config with the page size 10.
C13_Layered ==
    [][(config = None /\ IsSome(config')) =>
          /\ BuiltInLayers(Unwrap(config'), env, files)
          /\ OnlyPageSizeTen =>
                Unwrap(config') = [Config_default(env) EXCEPT !.page_size = 10]]_vars

\* build has returned with the second file unparseable, the first parsed and
\* the page size and the data directory overridden.
C13_Witness ==
    /\ last_call.op = BuildOp
    /\ last_call.ret = "Ok"
    /\ env = [HomeEnv EXCEPT !["PATCH_HUB_PAGE_SIZE"] = Some("10"),
                             !["PATCH_HUB_CONFIG_PATH"] = Some(NamedConfigPath),
                             !["PATCH_HUB_DATA_DIR"] = Some("/srv/hub")]
    /\ files[NamedConfigPath] = Some([kind |-> "garbage", config |-> None])
    /\ files[default_config_path(HomeEnv)] = Some(serialised(SavedConfig))
    /\ Unwrap(config).page_size = 10
    /\ Unwrap(config).cache_dir = "/var/cache/hub"
    /\ Unwrap(config).data_dir = "/srv/hub"
    /\ Unwrap(config).reviewed_patchsets_path = "/srv/hub/reviewed_patchsets.json"
    /\ Unwrap(config).git_send_email_options = "--dry-run --suppress-cc=all"

-----------------------------------------------------------------------------
\* The saving of the Config, lines 130-147, one step for each call it makes
\* on the file system; the process may die between any two of them.

SaveOp == "Config::save_patch_hub_config"

\* Lines 131-138; HOME is set.
config_path(e) ==
    IF IsSome(e["PATCH_HUB_CONFIG_PATH"])
    THEN Unwrap(e["PATCH_HUB_CONFIG_PATH"])
    ELSE default_config_path(e)

\* The temporary file as it would be were the Config written in place.
tmp_filename_in_place(path) == path

\* Line 140.
tmp_filename(path) == path \o ".tmp"

save_unchanged_vars == <<config, page_size, env, panicked, config_unchanged_vars>>

\* Line 142: File::create makes the temporary file, or empties the one there;
\* its error returns from the save.
save_create ==
    /\ ~panicked
    /\ IsSome(config)
    /\ saving.pc = "idle"
    /\ \E path \in {config_path(env)} :
       \E tmp \in {tmp_filename(path)} :
       \E ok \in BOOLEAN :
          IF ok
          THEN /\ files' = [files EXCEPT ![tmp] = Some([kind |-> "empty",
                                                       config |-> None])]
               /\ saving' = [pc |-> "created", path |-> path, tmp |-> tmp,
                             old |-> files[path], at |-> ""]
               /\ last_call' = NotWatched
          ELSE /\ last_call' = Returned(SaveOp, "Err", "File::create", <<>>)
               /\ UNCHANGED <<files, saving>>
    /\ UNCHANGED save_unchanged_vars

\* Line 143: serde_json::to_writer_pretty writes the Config piece by piece;
\* its error returns from the save and leaves what was written.
save_write ==
    /\ saving.pc \in {"created", "writing"}
    /\ \E outcome \in {"more", "done", "error"} :
          \/ /\ outcome = "more"
             /\ saving.pc = "created"
             /\ files' = [files EXCEPT ![saving.tmp] = Some([kind |-> "partial",
                                                             config |-> config])]
             /\ saving' = [saving EXCEPT !.pc = "writing"]
             /\ last_call' = NotWatched
          \/ /\ outcome = "done"
             /\ files' = [files EXCEPT ![saving.tmp] =
                                           Some(serialised(Unwrap(config)))]
             /\ saving' = [saving EXCEPT !.pc = "written"]
             /\ last_call' = NotWatched
          \/ /\ outcome = "error"
             /\ saving' = Idle
             /\ last_call' = Returned(SaveOp, "Err", "to_writer_pretty", <<>>)
             /\ UNCHANGED files
    /\ UNCHANGED save_unchanged_vars

\* Lines 145-146: fs::rename puts the temporary file in the place of the
\* destination in one step; its error returns from the save.
save_rename ==
    /\ saving.pc = "written"
    /\ \E ok \in BOOLEAN :
          IF ok
          THEN /\ files' = IF saving.tmp = saving.path
                           THEN files
                           ELSE [files EXCEPT ![saving.path] = files[saving.tmp],
                                              ![saving.tmp] = None]
               /\ last_call' = Returned(SaveOp, "Ok", "", <<>>)
          ELSE /\ last_call' = Returned(SaveOp, "Err", "fs::rename", <<>>)
               /\ UNCHANGED files
    /\ saving' = Idle
    /\ UNCHANGED save_unchanged_vars

\* The process dies during a save.
Crash ==
    /\ saving.pc \in {"created", "writing", "written"}
    /\ saving' = [saving EXCEPT !.pc = "crashed", !.at = saving.pc]
    /\ last_call' = NotWatched
    /\ UNCHANGED <<files, save_unchanged_vars>>

InitSave ==
    /\ config = None
    /\ env \in {e \in Environments :
                   /\ IsSome(e["HOME"])
                   /\ e["PATCH_HUB_PAGE_SIZE"] # Some("ten")
                   /\ e["PATCH_HUB_CACHE_DIR"] = None
                   /\ e["PATCH_HUB_DATA_DIR"] = None
                   /\ e["PATCH_HUB_GIT_SEND_EMAIL_OPTIONS"] = None}
    /\ \E named, default \in FileContents \ {Some(serialised(EditedConfig))} :
          files = [NoFiles EXCEPT ![NamedConfigPath] = named,
                                  ![default_config_path(HomeEnv)] = default]
    /\ saving = Idle
    /\ page_size = 0
    /\ current_screen = "MailingListSelection"
    /\ mailing_lists = <<>>
    /\ target_list = <<>>
    /\ possible_mailing_lists = <<>>
    /\ highlighted_list_index = 0
    /\ bookmarked_patchsets = <<>>
    /\ patchset_index = 0
    /\ latest_patchsets_state = None
    /\ patchset_details_and_actions_state = None
    /\ reviewed_patchsets = HashMap_new
    /\ feed_len = 0
    /\ watched = {SaveOp}
    /\ last_call = NotWatched
    /\ reply_runs = 0
    /\ panicked = FALSE

NextSave ==
    \/ Build
    \/ Config_set_cache_dir
    \/ save_create
    \/ save_write
    \/ save_rename
    \/ Crash

SpecSave == InitSave /\ [][NextSave]_vars

\* The destinations of a save.
Destinations == {NamedConfigPath, default_config_path(HomeEnv)}

\* C14: while a save has not renamed its temporary file, and after the process
\* died before the rename, the destination holds what it held before the save;
\* a destination only ever changes to the complete serialisation of the Config
\* being saved.
C14_SaveIsAtomic ==
    /\ [](saving.pc \in {"created", "writing", "written", "crashed"} =>
             files[saving.path] = saving.old)
    /\ [][\A path \in Destinations :
             files'[path] # files[path] =>
                 files'[path] = Some(serialised(Unwrap(config)))]_vars

\* The process died between the writing of the temporary file and the rename,
\* with a Config to save that is not the one the destination holds.
C14_Witness ==
    /\ saving.pc = "crashed"
    /\ saving.at = "written"
    /\ IsSome(saving.old)
    /\ Unwrap(saving.old).kind = "json"
    /\ files[saving.tmp] = Some(serialised(Unwrap(config)))
    /\ files[saving.tmp] # saving.old
    /\ files[saving.path] = saving.old

-----------------------------------------------------------------------------
\* One LatestPatchsetsState from its creation on: fetching, moving the cursor
\* and paging, every operation told apart.

SelectBelowOp == "LatestPatchsetsState::select_below_patchset"

SelectAboveOp == "LatestPatchsetsState::select_above_patchset"

DecrementOp == "LatestPatchsetsState::decrement_page"

InitPaging ==
    \E size \in 0..MaxPageSize, feed \in 0..MaxFeed :
        AppNew(<<Name_li>>, <<>>, HashMap_new, size, feed,
               {FetchOp, IncrementOp, SelectBelowOp, SelectAboveOp, DecrementOp})

\* Lines 392-404, called once.
OpenLatest ==
    /\ latest_patchsets_state = None
    /\ init_latest_patchsets_state

NextPaging ==
    \/ OpenLatest
    \/ Latest_fetch_current_page
    \/ Latest_select_below_patchset
    \/ Latest_select_above_patchset
    \/ Latest_increment_page
    \/ Latest_decrement_page

SpecPaging == InitPaging /\ [][NextPaging]_vars

\* What the session answered to the fetch.
Signal(call) == call.effects[1].call

\* C15: fetch_current_page returns Ok when the session signals the end of the
\* feed, and fewer than page_size * page_number items may then be held; it
\* returns an error when the session reports a failed request or a status
\* that is not OK, and the page number, the cursor and the items held are
\* then as they were.
C15_FetchResult ==
    [][last_call'.op = FetchOp =>
          /\ Signal(last_call') \in {"Ok", "EndOfFeed"} => last_call'.ret = "Ok"
          /\ Signal(last_call') = "Ok" =>
                Fetched' >= Latest.page_size * Latest.page_number
          /\ Signal(last_call') \in {"UnknownError", "StatusNotOk"} =>
                /\ last_call'.ret = "Err"
                /\ last_call'.error = Signal(last_call')
                /\ Latest' = Latest]_vars

\* The fetch for page 2 of size 2 met the end of a feed of 3 items.
C15_Witness ==
    /\ IsSome(latest_patchsets_state)
    /\ last_call.op = FetchOp
    /\ last_call.ret = "Ok"
    /\ Signal(last_call) = "EndOfFeed"
    /\ Latest.page_size = 2
    /\ Latest.page_number = 2
    /\ Latest.patchset_index = 2
    /\ Fetched = 3

\* The first index of the window of the current page.
PageStart(l) == l.page_size * (l.page_number - 1)

\* C17: select_below_patchset moves the cursor by one at most and not to or
\* past the number of items held; select_above_patchset moves it by one at
\* most and not below the first index of the current page; a step that takes
\* the cursor below the first index of the page it was on is a decrement_page.
C17_CursorCaps ==
    [][(IsSome(latest_patchsets_state) /\ IsSome(latest_patchsets_state')) =>
          /\ last_call'.op = SelectBelowOp =>
                IF Latest.patchset_index + 1 < Fetched
                THEN Latest' = [Latest EXCEPT !.patchset_index = Latest.patchset_index + 1]
                ELSE Latest' = Latest
          /\ last_call'.op = SelectAboveOp =>
                /\ IF Latest.patchset_index > PageStart(Latest)
                   THEN Latest' = [Latest EXCEPT !.patchset_index =
                                                     Latest.patchset_index - 1]
                   ELSE Latest' = Latest
                /\ Latest'.patchset_index >= PageStart(Latest')
          /\ Latest'.patchset_index < PageStart(Latest) =>
                last_call'.op = DecrementOp]_vars

\* select_above_patchset on page 2 of size 2 with the cursor on the first
\* index of the page, 2, and the item before it held.
C17_Witness ==
    /\ IsSome(latest_patchsets_state)
    /\ last_call.op = SelectAboveOp
    /\ Latest.page_size = 2
    /\ Latest.page_number = 2
    /\ Latest.patchset_index = 2
    /\ Fetched = 4

\* C18: decrement_page changes nothing on page 1; on any other page it takes
\* one from the page number and puts the cursor on the first index of the new
\* page; the page number is at least 1 in every state.
C18_DecrementPage ==
    /\ [](IsSome(latest_patchsets_state) => Latest.page_number >= 1)
    /\ [][last_call'.op = DecrementOp =>
             IF Latest.page_number = 1
             THEN Latest' = Latest
             ELSE Latest' = [Latest EXCEPT
                                !.page_number = Latest.page_number - 1,
                                !.patchset_index =
                                    Latest.page_size * (Latest.page_number - 2)]]_vars

\* decrement_page has gone from page 3 to page 2 of size 2.
C18_Witness ==
    /\ IsSome(latest_patchsets_state)
    /\ last_call.op = DecrementOp
    /\ Latest.page_size = 2
    /\ Latest.page_number = 2
    /\ Latest.patchset_index = 2
    /\ Fetched = 4

-----------------------------------------------------------------------------
\* The details as they are created: entered from every screen, over each
\* bookmarked collection and the latest series of a list, anew or in the place
\* of details whose flags were toggled.

InitDetailsOp == "App::init_patchset_details_and_actions_state"

InitDetails ==
    \E bookmarks \in DistinctSeqs(1..NumSeries, NumSeries) :
        AppNew(<<Name_li>>, bookmarks, HashMap_new, NumSeries, NumSeries,
               {InitDetailsOp})

NextDetails ==
    \/ init_latest_patchsets_state
    \/ Latest_fetch_current_page
    \/ Latest_select_below_patchset
    \/ Bookmarked_select_below_patchset
    \/ Bookmarked_select_above_patchset
    \/ EnterDetails
    \/ reset_patchset_details_and_actions_state
    \/ toggle_bookmark_action
    \/ toggle_reply_with_reviewed_by_action

SpecDetails == InitDetails /\ [][NextDetails]_vars

\* The screen the call was given.
Origin(call) == call.effects[1].call

\* The series selected on the screen the details are entered from.
SelectedOn(screen) ==
    IF screen = "BookmarkedPatchsets"
    THEN bookmarked_patchsets[patchset_index + 1]
    ELSE Latest.representative_patches_ids[Latest.patchset_index + 1]

\* C19: the details that init_patchset_details_and_actions_state creates have
\* the reply flag false, the screen passed in as last screen, and the bookmark
\* flag true when entered from the bookmarked series and, when entered from
\* the latest series, true exactly when the selected series is in the
\* bookmarked collection; for any other screen the call returns an error; a
\* call that does not return Ok leaves the details as they were.
C19_DetailsInit ==
    [][last_call'.op = InitDetailsOp =>
          IF last_call'.ret = "Ok"
          THEN /\ Origin(last_call') \in {"BookmarkedPatchsets", "LatestPatchsets"}
               /\ IsSome(patchset_details_and_actions_state')
               /\ ReplyFlag' = FALSE
               /\ Details'.last_screen = Origin(last_call')
               /\ Details'.representative_patch = SelectedOn(Origin(last_call'))
               /\ BookmarkFlag' =
                     \/ Origin(last_call') = "BookmarkedPatchsets"
                     \/ \E i \in 1..Len(bookmarked_patchsets) :
                           bookmarked_patchsets[i] = Details'.representative_patch
          ELSE /\ UNCHANGED patchset_details_and_actions_state
               /\ last_call'.ret = "Err" =>
                     (Origin(last_call') \notin {"BookmarkedPatchsets", "LatestPatchsets"}
                         <=> last_call'.error = "Invalid screen passed as argument")]_vars

\* The details of a latest series that is not bookmarked, while another
\* series is.
C19_Witness ==
    /\ last_call.op = InitDetailsOp
    /\ last_call.ret = "Ok"
    /\ Details.last_screen = "LatestPatchsets"
    /\ BookmarkFlag = FALSE
    /\ ReplyFlag = FALSE
    /\ Len(bookmarked_patchsets) = 1

-----------------------------------------------------------------------------
\* The preparation of the reply commands failed.
PrepareFailed(es) ==
    \E i \in 1..Len(es) :
        es[i].call = "prepare_reply_patchset_with_reviewed_by" /\ ~es[i].ok

\* C20: a consolidation whose reply preparation fails returns that error,
\* executes no reply command, and neither changes nor saves the reviewed map.
C20_PrepareFailsAsUnit ==
    [][(last_call'.op = ConsolidateOp /\ PrepareFailed(last_call'.effects)) =>
          /\ last_call'.ret = "Err"
          /\ last_call'.error = "prepare_reply_patchset_with_reviewed_by"
          /\ Spawns(last_call'.effects) = <<>>
          /\ \A i \in 1..Len(last_call'.effects) :
                last_call'.effects[i].call # "save_reviewed_patchsets"
          /\ UNCHANGED reviewed_patchsets]_vars

\* The preparation failed for a series of MaxMsgs messages that an earlier
\* reply is recorded for.
C20_Witness ==
    /\ Consolidated
    /\ PrepareFailed(last_call.effects)
    /\ last_call.ret = "Err"
    /\ Len(Details.patches) = MaxMsgs
    /\ IsSome(reviewed_patchsets[Details.representative_patch])
    /\ ReplyFlag

-----------------------------------------------------------------------------
\* The screens: the App operations that set the screen and that create and
\* drop the states of the latest patchsets and of the details, in any order.

SetScreenOp == "App::set_current_screen"

InitScreens ==
    AppNew(<<Name_li>>, [i \in 1..NumSeries |-> i], HashMap_new, NumSeries, NumSeries,
           {SetScreenOp})

\* Lines 507-509, for each screen.
SetScreen == \E new_current_screen \in CurrentScreen : set_current_screen(new_current_screen)

NextScreens ==
    \/ SetScreen
    \/ init_latest_patchsets_state
    \/ reset_latest_patchsets_state
    \/ Latest_fetch_current_page
    \/ Latest_select_below_patchset
    \/ Bookmarked_select_below_patchset
    \/ EnterDetails
    \/ reset_patchset_details_and_actions_state

SpecScreens == InitScreens /\ [][NextScreens]_vars

\* C21: the details are there exactly while the screen is PatchsetDetails, the
\* latest patchsets are there whenever the screen is LatestPatchsets, and
\* set_current_screen changes nothing but the screen.
C21_ScreenAgreement ==
    /\ [](IsSome(patchset_details_and_actions_state)
              <=> current_screen = "PatchsetDetails")
    /\ [](current_screen = "LatestPatchsets" => IsSome(latest_patchsets_state))
    /\ [][last_call'.op = SetScreenOp => UNCHANGED app_unchanged_by_screen]_vars

-----------------------------------------------------------------------------
\* C22: after cursor moves, entering the details and consolidations, one that
\* removes a bookmark among them, the cursor of the bookmarked series is
\* inside the collection, or 0 when it is empty, and the selected series is
\* there whenever the collection is not empty.
C22_BookmarkCursorValid ==
    /\ InRange(patchset_index, Len(bookmarked_patchsets))
    /\ bookmarked_patchsets # <<>> => IsSome(Bookmarked_get_selected_patchset)

-----------------------------------------------------------------------------
\* The current page holds items.
PagePopulated ==
    /\ IsSome(latest_patchsets_state)
    /\ IsSome(get_current_patch_feed_page(Latest))
    /\ Unwrap(get_current_patch_feed_page(Latest)) # <<>>

\* C23: whenever the current page holds items, the cursor is inside the window
\* of the page and below the number of items held, and the selected series is
\* one of the items of the page.
C23_CursorInWindow ==
    PagePopulated =>
        /\ PageStart(Latest) <= Latest.patchset_index
        /\ Latest.patchset_index < Latest.page_size * Latest.page_number
        /\ Latest.patchset_index < Fetched
        /\ IsSome(Latest_get_selected_patchset(Latest))
        /\ \E k \in 1..Len(Unwrap(get_current_patch_feed_page(Latest))) :
              Unwrap(get_current_patch_feed_page(Latest))[k] =
                  Unwrap(Latest_get_selected_patchset(Latest))

=============================================================================
